---------------------------- MODULE Spec2Model ----------------------------
(***************************************************************************)
(* ElizaOS Vision Agent: the rule-based response synthesizer               *)
(* (OraAction.generateResponse), the vision adapter                        *)
(* (GoogleVisionClient.analyzeImage / getMockResponse) and the HTTP        *)
(* request handler of server.js.                                           *)
(*                                                                         *)
(* JavaScript strings are TLA+ strings; Len, SubSeq and \o act on them     *)
(* character by character.  JavaScript arrays are sequences (index i of    *)
(* the code is index i+1 here).                                            *)
(***************************************************************************)
EXTENDS Integers, Sequences, FiniteSets, TLC

(***************************************************************************)
(* String and array primitives of the JavaScript runtime                   *)
(***************************************************************************)
Min(a, b) == IF a < b THEN a ELSE b

UpperChars == "ABCDEFGHIJKLMNOPQRSTUVWXYZ"

LowerChars == "abcdefghijklmnopqrstuvwxyz"

\* the upper-case letters and their lower-case counterparts
LowerTable ==
  [c \in {SubSeq(UpperChars, i, i) : i \in 1..Len(UpperChars)} |->
     LET i == CHOOSE j \in 1..Len(UpperChars) : SubSeq(UpperChars, j, j) = c
     IN  SubSeq(LowerChars, i, i)]

\* one character of String.prototype.toLowerCase
lowerChar(c) == IF c \in DOMAIN LowerTable THEN LowerTable[c] ELSE c

RECURSIVE toLowerCase(_)
toLowerCase(s) ==
  IF Len(s) = 0 THEN ""
  ELSE lowerChar(SubSeq(s, 1, 1)) \o toLowerCase(SubSeq(s, 2, Len(s)))

\* String.prototype.includes: unanchored substring test
strIncludes(s, sub) ==
  \E i \in 1..(Len(s) - Len(sub) + 1) : SubSeq(s, i, i + Len(sub) - 1) = sub

\* String.prototype.startsWith
startsWith(s, p) == Len(p) <= Len(s) /\ SubSeq(s, 1, Len(p)) = p

\* Array.prototype.includes
arrIncludes(arr, x) == \E i \in 1..Len(arr) : arr[i] = x

\* Array.prototype.slice(from, to) with 0 <= from <= to: a new array
slice(arr, from, to) == SubSeq(arr, from + 1, Min(to, Len(arr)))

\* Array.prototype.join of an array of strings
RECURSIVE join(_, _)
join(arr, sep) ==
  IF Len(arr) = 0 THEN ""
  ELSE IF Len(arr) = 1 THEN arr[1]
  ELSE arr[1] \o sep \o join(Tail(arr), sep)


(***************************************************************************)
(* JavaScript values that cross the HTTP boundary                          *)
(***************************************************************************)
Undefined == [t |-> "undef"]

Str(s) == [t |-> "str", s |-> s]

\* outcome of a function call: a returned value or a thrown Error
Ret(line, completion) ==
  [threw |-> FALSE, ret |-> line, completion |-> completion, message |-> ""]

Throw(msg) == [threw |-> TRUE, ret |-> 0, completion |-> "", message |-> msg]

(***************************************************************************)
(* OraAction.generateResponse                                              *)
(***************************************************************************)
luxuryItems ==
  << "watch", "analog watch", "timepiece", "wristwatch", "chronograph", "rolex",
     "omega", "patek philippe", "jewelry", "ring", "necklace", "bracelet",
     "diamond", "gold", "silver", "platinum", "sneakers", "shoes", "nike",
     "adidas", "jordan", "yeezy", "designer", "luxury", "fashion", "handbag",
     "purse", "wallet", "louis vuitton", "gucci", "prada", "chanel", "hermes" >>

colorWords ==
  << "red", "blue", "green", "yellow", "black", "white", "purple", "orange",
     "pink", "brown", "gray", "grey", "silver", "gold" >>

wildlifeWords == << "animal", "mammal", "wildlife" >>

watchWords == << "watch", "analog watch" >>

\* labels.slice(0, 5).map(l => l.description.toLowerCase())
mainLabelsOf(labels) ==
  LET top == slice(labels, 0, 5)
  IN  [i \in 1..Len(top) |-> toLowerCase(top[i].description)]

\* objects.map(o => o.name.toLowerCase())
mainObjectsOf(objects) == [i \in 1..Len(objects) |-> toLowerCase(objects[i].name)]

\* allEntities.filter(item => luxuryItems.includes(item))
detectedLuxuryItemsOf(allEntities) ==
  SelectSeq(allEntities, LAMBDA item : arrIncludes(luxuryItems, item))

\* faulty variant: only the substring test on the labels, the keyword list ignored
luxuryRuleLabelsOnly(detectedLuxuryItems, mainLabels) ==
  \E i \in 1..Len(mainLabels) :
    \/ strIncludes(mainLabels[i], "watch")
    \/ strIncludes(mainLabels[i], "jewelry")
    \/ strIncludes(mainLabels[i], "fashion")

\* faulty variant: one detected luxury entity alone does not enter the branch
luxuryRuleSeveral(detectedLuxuryItems, mainLabels) ==
  \/ Len(detectedLuxuryItems) > 1
  \/ \E i \in 1..Len(mainLabels) :
        \/ strIncludes(mainLabels[i], "watch")
        \/ strIncludes(mainLabels[i], "jewelry")
        \/ strIncludes(mainLabels[i], "fashion")

\* the condition of the first (luxury) branch
luxuryRule(detectedLuxuryItems, mainLabels) ==
  \/ Len(detectedLuxuryItems) > 0
  \/ \E i \in 1..Len(mainLabels) :
        \/ strIncludes(mainLabels[i], "watch")
        \/ strIncludes(mainLabels[i], "jewelry")
        \/ strIncludes(mainLabels[i], "fashion")

\* the condition of the watch sub-case
watchRule(mainLabels, mainObjects) ==
  \/ arrIncludes(mainLabels, "watch") \/ arrIncludes(mainLabels, "analog watch")
  \/ arrIncludes(mainObjects, "watch") \/ arrIncludes(mainObjects, "analog watch")

\* faulty variant: the watch labels are not filtered out of the details
watchDetailsUnfiltered(labels) ==
  LET top == slice(labels, 0, 5)
  IN  [i \in 1..Len(top) |-> top[i].description]

\* labels.filter(l => !['watch','analog watch'].includes(...)).slice(0, 5).map(l => l.description)
watchDetailsOf(labels) ==
  LET kept == SelectSeq(labels,
                LAMBDA l : ~arrIncludes(watchWords, toLowerCase(l.description)))
      top  == slice(kept, 0, 5)
  IN  [i \in 1..Len(top) |-> top[i].description]

watchSentence(labels) ==
  "This image shows a luxury timepiece. It appears to be an analog watch with the following characteristics: "
  \o join(watchDetailsOf(labels), ", ")
  \o ". Watches like this are precision instruments that combine craftsmanship with functionality, often serving as both a practical tool and a fashion statement or collectible item."

luxurySentence(detectedLuxuryItems, mainLabels) ==
  "This image shows a luxury collectible item: "
  \o join(detectedLuxuryItems, ", ") \o ". The item features "
  \o join(slice(mainLabels, 0, 3), ", ")
  \o " design elements. Luxury items like this are often valued for their craftsmanship, brand prestige, and aesthetic appeal, making them desirable collectibles."

\* objects.map(o => o.name)
namesOf(objects) == [i \in 1..Len(objects) |-> objects[i].name]

\* mainLabels[0], or "" when the array is empty (both falsy in the code)
firstOf(arr) == IF Len(arr) > 0 THEN arr[1] ELSE ""

\* faulty variant: the query must equal the keyword instead of containing it
animalQueryExact(queryLower) == queryLower = "animal" \/ queryLower = "pet"

\* query intents: the conditions of the else-if chain
animalQuery(queryLower) ==
  strIncludes(queryLower, "animal") \/ strIncludes(queryLower, "pet")

objectQuery(queryLower) ==
  \/ strIncludes(queryLower, "object") \/ strIncludes(queryLower, "thing")
  \/ strIncludes(queryLower, "what is") \/ strIncludes(queryLower, "what's in")
  \/ strIncludes(queryLower, "show me")

colorQuery(queryLower) ==
  strIncludes(queryLower, "color") \/ strIncludes(queryLower, "colour")

\* faulty variant: the keywords are matched at the start of the query only
textQueryAnchored(queryLower) ==
  \/ startsWith(queryLower, "text") \/ startsWith(queryLower, "say")
  \/ startsWith(queryLower, "write") \/ startsWith(queryLower, "read")

textQuery(queryLower) ==
  \/ strIncludes(queryLower, "text") \/ strIncludes(queryLower, "say")
  \/ strIncludes(queryLower, "write") \/ strIncludes(queryLower, "read")

locationQuery(queryLower) ==
  strIncludes(queryLower, "where") \/ strIncludes(queryLower, "location")

\* the luxury branch (first branch of the chain)
luxuryBranch(labels, mainLabels, mainObjects, detectedLuxuryItems) ==
  IF watchRule(mainLabels, mainObjects)
  THEN Ret(208, watchSentence(labels))
  ELSE Ret(214, luxurySentence(detectedLuxuryItems, mainLabels))

\* faulty variant: the dog test comes before the cat test
animalBranchDogFirst(mainLabels, allEntities) ==
  IF arrIncludes(allEntities, "dog")
  THEN Ret(226, "The image shows a dog. Dogs are domesticated mammals known for their loyalty and companionship. They are one of the most popular pets globally.")
  ELSE IF arrIncludes(allEntities, "cat")
  THEN Ret(222, "The image shows a cat. Cats are domestic felines known for their independent nature and grooming habits. They are popular pets worldwide.")
  ELSE IF \E i \in 1..Len(mainLabels) : arrIncludes(wildlifeWords, mainLabels[i])
  THEN LET others == SelectSeq(mainLabels, LAMBDA l : ~arrIncludes(wildlifeWords, l))
           \* mainLabels.find(...): the first such label, or undefined
           animalType == firstOf(others)
       IN  Ret(231, "The image appears to show a "
                    \o (IF animalType # "" THEN animalType ELSE "wild animal")
                    \o ". I can see characteristics typical of "
                    \o (IF animalType # "" THEN animalType ELSE "wildlife")
                    \o " in the image.")
  ELSE Ret(235, "I don't see any animals in this image. The image appears to show "
                \o (IF firstOf(mainLabels) # "" THEN "a " \o firstOf(mainLabels)
                                                ELSE "a scene without animals")
                \o ".")

animalBranch(mainLabels, allEntities) ==
  IF arrIncludes(allEntities, "cat")
  THEN Ret(222, "The image shows a cat. Cats are domestic felines known for their independent nature and grooming habits. They are popular pets worldwide.")
  ELSE IF arrIncludes(allEntities, "dog")
  THEN Ret(226, "The image shows a dog. Dogs are domesticated mammals known for their loyalty and companionship. They are one of the most popular pets globally.")
  ELSE IF \E i \in 1..Len(mainLabels) : arrIncludes(wildlifeWords, mainLabels[i])
  THEN LET others == SelectSeq(mainLabels, LAMBDA l : ~arrIncludes(wildlifeWords, l))
           \* mainLabels.find(...): the first such label, or undefined
           animalType == firstOf(others)
       IN  Ret(231, "The image appears to show a "
                    \o (IF animalType # "" THEN animalType ELSE "wild animal")
                    \o ". I can see characteristics typical of "
                    \o (IF animalType # "" THEN animalType ELSE "wildlife")
                    \o " in the image.")
  ELSE Ret(235, "I don't see any animals in this image. The image appears to show "
                \o (IF firstOf(mainLabels) # "" THEN "a " \o firstOf(mainLabels)
                                                ELSE "a scene without animals")
                \o ".")

objectBranch(objects, text, mainLabels, detectedLuxuryItems) ==
  IF Len(objects) > 0
  THEN LET objectsList == join(namesOf(objects), ", ")
       IN  IF Len(detectedLuxuryItems) > 0
           THEN Ret(252, "The main object in this image is a luxury item: " \o objectsList
                         \o ". It features " \o join(slice(mainLabels, 0, 3), ", ")
                         \o " design elements. This appears to be a high-quality collectible item.")
           ELSE Ret(257, "The main objects in this image are: " \o objectsList
                         \o ". The image primarily shows "
                         \o (IF firstOf(mainLabels) # "" THEN firstOf(mainLabels) ELSE "a scene")
                         \o " with " \o ToString(Len(objects)) \o " identifiable objects.")
  ELSE IF Len(mainLabels) > 0
  THEN Ret(262, "This image shows " \o mainLabels[1] \o " with features including "
                \o join(slice(mainLabels, 1, 4), ", ") \o ". "
                \o (IF Len(text) > 0 THEN "There is also text visible: \"" \o text \o "\"."
                                     ELSE ""))
  ELSE Ret(268, "The image doesn't contain clearly defined objects. It appears to be a scene.")

colorBranch(mainLabels, mainObjects) ==
  LET colorLabels == SelectSeq(mainLabels, LAMBDA l : arrIncludes(colorWords, l))
  IN  IF Len(colorLabels) > 0
      THEN Ret(282, "The dominant colors in this image appear to be "
                    \o join(colorLabels, ", ") \o ".")
      ELSE IF arrIncludes(mainLabels, "sky") \/ arrIncludes(mainObjects, "sky")
      THEN Ret(286, "The image contains sky which appears blue, and likely has other natural colors typical of an outdoor scene.")
      ELSE IF arrIncludes(mainLabels, "landscape") \/ arrIncludes(mainLabels, "nature")
      THEN Ret(290, "The image shows a natural landscape with typical earth tones, greens from vegetation, and blues from the sky.")
      ELSE Ret(294, "I cannot specifically identify the colors in this image, but it appears to show "
                    \o (IF firstOf(mainLabels) # "" THEN "a " \o firstOf(mainLabels) ELSE "a scene")
                    \o " with its typical coloration.")

\* faulty variant: the else of the text branch is missing, so the function
\* runs off its end and returns undefined
textBranchNoElse(text) ==
  IF Len(text) > 0
  THEN [threw |-> FALSE, ret |-> 305, message |-> "",
        completion |-> "The text in the image reads: \"" \o text \o "\""]
  ELSE [threw |-> FALSE, ret |-> 418, message |-> "", completion |-> ""]

textBranch(text) ==
  IF Len(text) > 0
  THEN Ret(305, "The text in the image reads: \"" \o text \o "\"")
  ELSE Ret(309, "There is no visible text in this image.")

locationBranch(mainLabels) ==
  IF \/ arrIncludes(mainLabels, "landscape") \/ arrIncludes(mainLabels, "nature")
     \/ arrIncludes(mainLabels, "outdoor")
  THEN Ret(318, "This appears to be an outdoor natural setting. Based on the visible elements like "
                \o (IF arrIncludes(mainLabels, "tree") THEN "trees" ELSE "natural features")
                \o ", it's likely a park, forest, or natural landscape area.")
  ELSE IF arrIncludes(mainLabels, "indoor") \/ arrIncludes(mainLabels, "room")
  THEN Ret(324, "This appears to be an indoor setting, possibly a "
                \o (IF arrIncludes(mainLabels, "kitchen") THEN "kitchen"
                    ELSE IF arrIncludes(mainLabels, "bedroom") THEN "bedroom"
                    ELSE IF arrIncludes(mainLabels, "office") THEN "office"
                    ELSE "room or building interior")
                \o ".")
  ELSE IF arrIncludes(mainLabels, "urban") \/ arrIncludes(mainLabels, "city")
  THEN Ret(331, "This appears to be an urban setting, possibly in a city or town environment.")
  ELSE Ret(335, "I cannot determine the specific location from this image. It appears to show "
                \o (IF firstOf(mainLabels) # "" THEN "a " \o firstOf(mainLabels) ELSE "a scene")
                \o ".")

\* faulty variant: the label case is taken even when there are no labels
genericFallbackNoEmptyCase(objects, text, topLabels) ==
  IF Len(objects) > 0
  THEN Ret(400, "This image shows " \o join(namesOf(objects), ", ")
                \o ". The key features include " \o join(topLabels, ", ") \o ". ")
  ELSE Ret(406, "This image shows " \o firstOf(topLabels) \o " with features including "
                \o join(slice(topLabels, 1, Len(topLabels)), ", ") \o ". ")

\* the last else of the default branch: objects, else top labels, else the
\* "no identifiable objects" sentence
genericFallback(objects, text, topLabels) ==
  LET alsoText == IF Len(text) > 0
                  THEN "There is also some text visible: \"" \o text \o "\"."
                  ELSE ""
  IN  IF Len(objects) > 0
      THEN Ret(400, "This image shows " \o join(namesOf(objects), ", ")
                    \o ". The key features include " \o join(topLabels, ", ") \o ". "
                    \o alsoText)
      ELSE IF Len(topLabels) > 0
      THEN Ret(406, "This image shows " \o topLabels[1] \o " with features including "
                    \o join(slice(topLabels, 1, Len(topLabels)), ", ") \o ". " \o alsoText)
      ELSE Ret(412, "This image doesn't contain clearly identifiable objects or features that I can describe with confidence.")

defaultBranch(labels, objects, text, mainLabels, mainObjects, detectedLuxuryItems) ==
  LET has(w) == arrIncludes(mainLabels, w) \/ arrIncludes(mainObjects, w)
      topLabels == SelectSeq(slice(mainLabels, 0, 5), LAMBDA l : Len(l) > 0)
  IN  IF Len(detectedLuxuryItems) > 0
      THEN IF watchRule(mainLabels, mainObjects)
           THEN Ret(355, watchSentence(labels))
           ELSE Ret(360, luxurySentence(detectedLuxuryItems, mainLabels))
      ELSE IF has("cat")
      THEN Ret(367, "This image shows a cat. It appears to be a domestic feline, commonly kept as a pet. Cats are known for their independent nature, agility, and grooming habits.")
      ELSE IF has("dog")
      THEN Ret(371, "This image shows a dog. Dogs are domesticated mammals that have been bred for various tasks such as hunting, herding, protection, and companionship.")
      ELSE IF has("person")
      THEN Ret(375, "This image shows a person. I can see a human figure in the frame, though I cannot identify specific individuals.")
      ELSE IF has("food")
      THEN Ret(379, "This image shows food. It appears to be a prepared dish or meal, though I cannot identify the specific cuisine or ingredients in detail.")
      ELSE IF has("car")
      THEN Ret(383, "This image shows a car. It's a motor vehicle designed for transportation on roads, typically with four wheels.")
      ELSE IF Len(text) > 0 /\ Len(text) > 10
      THEN Ret(388, "This image contains text that reads: \"" \o text
                    \o "\". It appears to be a document or text-containing image.")
      ELSE IF arrIncludes(mainLabels, "landscape") \/ arrIncludes(mainLabels, "nature")
      THEN Ret(392, "This image depicts a landscape photo featuring trees and sky with clouds. It's a natural outdoor scene showing elements of nature.")
      ELSE genericFallback(objects, text, topLabels)

\* the if / else-if chain of generateResponse, once the derived arrays exist
responseChain(labels, objects, text, queryLower) ==
  LET mainLabels  == mainLabelsOf(labels)
      mainObjects == mainObjectsOf(objects)
      allEntities == mainLabels \o mainObjects
      detectedLuxuryItems == detectedLuxuryItemsOf(allEntities)
  IN  IF luxuryRule(detectedLuxuryItems, mainLabels)
      THEN luxuryBranch(labels, mainLabels, mainObjects, detectedLuxuryItems)
      ELSE IF animalQuery(queryLower) THEN animalBranch(mainLabels, allEntities)
      ELSE IF objectQuery(queryLower)
      THEN objectBranch(objects, text, mainLabels, detectedLuxuryItems)
      ELSE IF colorQuery(queryLower) THEN colorBranch(mainLabels, mainObjects)
      ELSE IF textQuery(queryLower) THEN textBranch(text)
      ELSE IF locationQuery(queryLower) THEN locationBranch(mainLabels)
      ELSE defaultBranch(labels, objects, text, mainLabels, mainObjects,
                         detectedLuxuryItems)

(***************************************************************************)
(* An AnalysisResult as received by the synthesizer: labels is a sequence  *)
(* of [description, score], objects a sequence of [name, score], text a    *)
(* string; `missing` names the properties the object does not have (empty  *)
(* for every result the adapter builds).  Scores are in hundredths.        *)
(***************************************************************************)
Analysis(labels, text, objects) ==
  [t |-> "analysis", labels |-> labels, text |-> text, objects |-> objects,
   missing |-> {}]

\* text as the branches see it: `text && text.length > 0` treats a missing
\* text like the empty string
textOf(imageAnalysis) ==
  IF "text" \in imageAnalysis.missing THEN "" ELSE imageAnalysis.text

\* faulty variant: missing labels and objects are read as empty arrays
generateResponseDefaultEmpty(imageAnalysis, query) ==
  IF query.t # "str"
  THEN Throw("query.toLowerCase is not a function")
  ELSE IF imageAnalysis.t # "analysis"
  THEN responseChain(<<>>, <<>>, "", toLowerCase(query.s))
  ELSE responseChain(IF "labels" \in imageAnalysis.missing THEN <<>>
                                                             ELSE imageAnalysis.labels,
                     IF "objects" \in imageAnalysis.missing THEN <<>>
                                                              ELSE imageAnalysis.objects,
                     textOf(imageAnalysis), toLowerCase(query.s))

\* OraAction.generateResponse(imageAnalysis, query, contextString)
generateResponse(imageAnalysis, query) ==
  IF imageAnalysis.t # "analysis" \/ "labels" \in imageAnalysis.missing
  THEN Throw("Cannot read properties of undefined (reading 'slice')")
  ELSE IF "objects" \in imageAnalysis.missing
  THEN Throw("Cannot read properties of undefined (reading 'map')")
  ELSE IF query.t # "str"
  THEN Throw("query.toLowerCase is not a function")
  ELSE responseChain(imageAnalysis.labels, imageAnalysis.objects,
                     textOf(imageAnalysis), toLowerCase(query.s))

\* Number.prototype.toFixed(2) of a score given in hundredths
toFixed2(score) ==
  ToString(score \div 100) \o "." \o ToString((score % 100) \div 10)
  \o ToString(score % 10)

\* OraAction.prepareContextString(imageAnalysis)
prepareContextString(imageAnalysis) ==
  IF imageAnalysis.t \in {"undef", "null"}
  THEN Throw("Cannot destructure property 'labels' of 'imageAnalysis' as it is " \o
             (IF imageAnalysis.t = "null" THEN "null." ELSE "undefined."))
  ELSE IF imageAnalysis.t # "analysis"
  THEN Ret(163, "Image Analysis Results:\nText detected: None\n")
  ELSE
  LET hasLabels  == "labels" \notin imageAnalysis.missing /\ Len(imageAnalysis.labels) > 0
      hasObjects == "objects" \notin imageAnalysis.missing /\ Len(imageAnalysis.objects) > 0
      text       == textOf(imageAnalysis)
      labelPart  == [i \in 1..Len(imageAnalysis.labels) |->
                       imageAnalysis.labels[i].description \o " (confidence: "
                       \o toFixed2(imageAnalysis.labels[i].score) \o ")"]
      objectPart == [i \in 1..Len(imageAnalysis.objects) |->
                       imageAnalysis.objects[i].name \o " (confidence: "
                       \o toFixed2(imageAnalysis.objects[i].score) \o ")"]
  IN  Ret(163, "Image Analysis Results:\n"
               \o (IF hasLabels THEN "Labels: " \o join(labelPart, ", ") \o "\n" ELSE "")
               \o (IF Len(text) > 0 THEN "Text detected: " \o text \o "\n"
                                    ELSE "Text detected: None\n")
               \o (IF hasObjects THEN "Objects: " \o join(objectPart, ", ") \o "\n" ELSE ""))

\* faulty variant: Array.prototype.splice(from, to - from) removes the
\* elements from the receiver
receiverAfterSplice(arr, from, to) ==
  SubSeq(arr, 1, from) \o SubSeq(arr, to + 1, Len(arr))

\* what Array.prototype.slice(from, to) leaves in its receiver: slice, map,
\* filter and join build new arrays and strings and assign to no property
receiverAfterSlice(arr, from, to) == arr

\* the AnalysisResult object after prepareContextString and generateResponse
\* have run on it
analysisAfterCall(imageAnalysis) ==
  IF imageAnalysis.t # "analysis" \/ "labels" \in imageAnalysis.missing
  THEN imageAnalysis
  ELSE [imageAnalysis EXCEPT !.labels = receiverAfterSlice(@, 0, 5)]

(***************************************************************************)
(* Inputs of the synthesizer                                               *)
(***************************************************************************)
\* number of filler labels that may precede the interesting ones; with
\* MaxPad >= 5 an interesting label can lie beyond the top 5
MaxPad == 5

\* number of calls made with the same AnalysisResult object
MaxCalls == 2

Label(d) == [description |-> d, score |-> 90]

Obj(n) == [name |-> n, score |-> 87]

RECURSIVE padLabels(_)
padLabels(k) == IF k = 0 THEN <<>> ELSE <<Label("Metal")>> \o padLabels(k - 1)

LabelWords ==
  <<"Watch", "ANALOG WATCH", "Smartwatch", "Gold", "Cat", "Dog", "Mammal", "Nature">>

\* no, one or two interesting labels (two: in the order of LabelWords)
CoreLabels ==
  {<<>>} \cup {<<Label(LabelWords[i])>> : i \in 1..Len(LabelWords)}
         \cup {<<Label(LabelWords[p[1]]), Label(LabelWords[p[2]])>> :
                  p \in {q \in (1..Len(LabelWords)) \X (1..Len(LabelWords)) : q[1] < q[2]}}

\* the interesting labels after 0..MaxPad fillers, or before MaxPad fillers
GenLabels ==
  {padLabels(k) \o c : k \in 0..MaxPad, c \in CoreLabels}
  \cup {c \o padLabels(MaxPad) : c \in CoreLabels}

GenObjects == {<<>>, <<Obj("Cat")>>, <<Obj("Watch")>>, <<Obj("Tree"), Obj("Sky")>>}

GenTexts == {"", "SALE", "SALE 50% off"}

GenQueries ==
  {"What can you tell me about this image?", "what animal is this",
   "What COLOR is the pet?", "Show me the objects", "what colour is it",
   "read the text", "Where is this?", "what color is the animal",
   "Show me where the carpet is", "Describe SOMETHING, say its colour",
   "Read the colour", "Location of the bread"}

GenAnalyses ==
  {Analysis(l, t, o) : l \in GenLabels, t \in GenTexts, o \in GenObjects}

(***************************************************************************)
(* GoogleVisionClient                                                      *)
(***************************************************************************)
Null == [t |-> "null"]

Num(n) == [t |-> "num", n |-> n]

Arr(items) == [t |-> "arr", items |-> items]

\* the outcome of an async call: resolved with a value or rejected
Resolve(v) == [ok |-> TRUE, value |-> v, message |-> ""]

Reject(msg) == [ok |-> FALSE, value |-> Undefined, message |-> msg]

\* the default value of the `features` parameter
defaultFeatures == Arr(<<"LABEL_DETECTION", "TEXT_DETECTION", "OBJECT_LOCALIZATION">>)

personSignature ==
  "/9j/4AAQSkZJRgABAQAAAQABAAD/2wCEAAkGBxISEBMQEhIWFhEQFxUZEhgSFhcYEhATGhUXGRcRFhUY"

Lbl(d, score) == [description |-> d, score |-> score]

\* an object with its bounding polygon (x, y of the four vertices)
Box(n, score, poly) == [name |-> n, score |-> score, boundingPoly |-> poly]

personFixture ==
  Analysis(<<Lbl("Person", 98), Lbl("Human", 97), Lbl("Face", 95),
             Lbl("Portrait", 92), Lbl("Photography", 90)>>,
           "",
           <<Box("Person", 98, <<100, 50, 500, 50, 500, 700, 100, 700>>),
             Box("Face", 95, <<200, 100, 400, 100, 400, 300, 200, 300>>)>>)

genericFixture ==
  Analysis(<<Lbl("Object", 90), Lbl("Item", 85), Lbl("Product", 80),
             Lbl("Artifact", 75), Lbl("Material", 70)>>,
           "",
           <<Box("Object", 90, <<150, 150, 450, 150, 450, 450, 150, 450>>)>>)

landscapeFixture ==
  Analysis(<<Lbl("Sky", 95), Lbl("Cloud", 92), Lbl("Tree", 87),
             Lbl("Nature", 85), Lbl("Landscape", 82)>>,
           "",
           <<Box("Tree", 87, <<10, 10, 100, 10, 100, 200, 10, 200>>),
             Box("Sky", 95, <<0, 0, 800, 0, 800, 300, 0, 300>>)>>)

\* faulty variant: the signature is looked for before the data-URL prefix
getMockResponseSignatureFirst(imageUrl) ==
  IF strIncludes(imageUrl, personSignature) THEN personFixture
  ELSE IF startsWith(imageUrl, "data:image/") THEN genericFixture
  ELSE landscapeFixture

\* GoogleVisionClient.getMockResponse(imageUrl); the Unsplash image id it
\* extracts first is only logged
getMockResponse(imageUrl) ==
  IF startsWith(imageUrl, "data:image/")
  THEN IF strIncludes(imageUrl, personSignature) THEN personFixture
       ELSE genericFixture
  ELSE landscapeFixture

(***************************************************************************)
(* What the external annotateImage call can do once it returns.  A raw     *)
(* annotation result has labelAnnotations, fullTextAnnotation and          *)
(* localizedObjectAnnotations, each possibly absent.                       *)
(***************************************************************************)
Raw(hasLabels, labels, hasText, text, hasObjects, objects) ==
  [hasLabels |-> hasLabels, labelAnnotations |-> labels,
   hasText |-> hasText, fullText |-> text,
   hasObjects |-> hasObjects, localizedObjectAnnotations |-> objects]

rawCat ==
  Raw(TRUE, <<Lbl("Cat", 97), Lbl("Mammal", 91)>>, FALSE, "",
      TRUE, <<Box("Cat", 93, <<5, 5, 60, 5, 60, 80, 5, 80>>)>>)

rawSign == Raw(FALSE, <<>>, TRUE, "SALE 50% off", FALSE, <<>>)

\* annotateImage was not called, or has not returned
NoOutcome == [kind |-> "none", raw |-> rawSign]

\* annotateImage: rejects, resolves to a result carrying `error`, resolves to
\* something that is not [result], or resolves to [result]
VisionOutcomes ==
  {[kind |-> "rejects", raw |-> rawSign], [kind |-> "error", raw |-> rawSign],
   [kind |-> "malformed", raw |-> rawSign],
   [kind |-> "result", raw |-> rawCat], [kind |-> "result", raw |-> rawSign]}

\* the processedResult built from a raw result
processedResult(raw) ==
  Analysis(
    IF raw.hasLabels
    THEN [i \in 1..Len(raw.labelAnnotations) |->
            Lbl(raw.labelAnnotations[i].description, raw.labelAnnotations[i].score)]
    ELSE <<>>,
    IF raw.hasText /\ raw.fullText # "" THEN raw.fullText ELSE "",
    IF raw.hasObjects
    THEN [i \in 1..Len(raw.localizedObjectAnnotations) |->
            Box(raw.localizedObjectAnnotations[i].name,
                raw.localizedObjectAnnotations[i].score,
                raw.localizedObjectAnnotations[i].boundingPoly)]
    ELSE <<>>)

\* the default of the features parameter and the two log lines that precede
\* the try block of analyzeImage: imageUrl.substring(0, 50), features.join(', ')
analyzeImageProlog(imageUrl, features) ==
  IF imageUrl.t # "str" THEN Reject("imageUrl.substring is not a function")
  ELSE IF features.t = "undef" THEN Resolve(defaultFeatures)
  ELSE IF features.t # "arr" THEN Reject("features.join is not a function")
  ELSE Resolve(features)

\* the try block of analyzeImage up to the external call: TRUE when the call
\* is made, FALSE when the missing client throws into the catch block
callsVision(clientInitialised) == clientInitialised

\* the rest of the try block, and the catch block, once annotateImage returned
analyzeImageEpilog(imageUrl, outcome) ==
  IF outcome.kind = "result"
  THEN Resolve(processedResult(outcome.raw))
  ELSE Resolve(getMockResponse(imageUrl.s))

\* analyzeImage when the client is not initialised: the catch block
analyzeImageNoClient(imageUrl) == Resolve(getMockResponse(imageUrl.s))

(***************************************************************************)
(* State                                                                   *)
(***************************************************************************)
VARIABLES
  imageAnalysis,  \* the AnalysisResult object handed to the synthesizer
  query,          \* the query string
  answers,        \* results of the calls made so far, oldest first
  vision,         \* one call of GoogleVisionClient.analyzeImage
  conn,           \* the requests of the HTTP server, by connection
  demo            \* one run of the CLI demo

vars == <<imageAnalysis, query, answers, vision, conn, demo>>

\* the connections the server is given
Requests == {1, 2, 3}

\* no call of analyzeImage made
VisionIdle ==
  [pc |-> "idle", imageUrl |-> Undefined, features |-> Undefined,
   clientInitialised |-> FALSE, settled |-> Resolve(Undefined)]

\* runDemo not called
DemoIdle ==
  [pc |-> "idle", clientInitialised |-> FALSE, outcome |-> NoOutcome,
   imageAnalysis |-> Undefined, oraResponse |-> Undefined, executed |-> <<>>,
   printed |-> Undefined, reported |-> ""]

\* no request on the connection
ConnIdle ==
  [pc |-> "idle", method |-> "", url |-> "", path |-> "", rawBody |-> Undefined,
   body |-> Undefined, thrown |-> "", clientInitialised |-> FALSE, outcome |-> NoOutcome,
   visionParams |-> Undefined, imageAnalysis |-> Undefined, oraParams |-> Undefined,
   executed |-> <<>>, writes |-> 0, status |-> 0, response |-> Undefined]

InitGen ==
  /\ imageAnalysis \in GenAnalyses
  /\ query \in {Str(q) : q \in GenQueries}
  /\ answers = <<>>
  /\ vision = VisionIdle
  /\ demo = DemoIdle
  /\ conn = [r \in Requests |-> ConnIdle]

\* one call of prepareContextString followed by generateResponse, as in
\* OraAction.execute
CallGenerate ==
  /\ Len(answers) < MaxCalls
  /\ answers' = Append(answers, generateResponse(imageAnalysis, query))
  /\ imageAnalysis' = analysisAfterCall(imageAnalysis)
  /\ UNCHANGED <<query, vision, conn, demo>>

NextGen == CallGenerate

SpecGen == InitGen /\ [][NextGen]_vars

(***************************************************************************)
(* Properties of the synthesizer                                           *)
(***************************************************************************)
WellFormed == imageAnalysis.t = "analysis" /\ imageAnalysis.missing = {}

LuxurySet == {luxuryItems[i] : i \in 1..Len(luxuryItems)}

\* a top-5 label or any object is, lower-cased, a luxury keyword
LuxuryEntityPresent ==
  \/ \E i \in 1..Min(5, Len(imageAnalysis.labels)) :
       toLowerCase(imageAnalysis.labels[i].description) \in LuxurySet
  \/ \E i \in 1..Len(imageAnalysis.objects) :
       toLowerCase(imageAnalysis.objects[i].name) \in LuxurySet

\* the luxury branch is also entered when a top-5 label contains one of
\* "watch", "jewelry", "fashion"
LuxuryRuleFires ==
  \/ LuxuryEntityPresent
  \/ \E i \in 1..Min(5, Len(imageAnalysis.labels)) :
       \E w \in {"watch", "jewelry", "fashion"} :
         strIncludes(toLowerCase(imageAnalysis.labels[i].description), w)

WatchPrefix ==
  "This image shows a luxury timepiece. It appears to be an analog watch with the following characteristics: "

WatchSuffix ==
  ". Watches like this are precision instruments that combine craftsmanship with functionality, often serving as both a practical tool and a fashion statement or collectible item."

IsLuxurySentence(c) ==
  \/ startsWith(c, "This image shows a luxury timepiece.")
  \/ startsWith(c, "This image shows a luxury collectible item: ")

IsAnimalSentence(c) ==
  \/ c = "The image shows a cat. Cats are domestic felines known for their independent nature and grooming habits. They are popular pets worldwide."
  \/ c = "The image shows a dog. Dogs are domesticated mammals known for their loyalty and companionship. They are one of the most popular pets globally."
  \/ startsWith(c, "The image appears to show a ")
  \/ startsWith(c, "I don't see any animals in this image.")

IsColorSentence(c) ==
  \/ startsWith(c, "The dominant colors in this image appear to be ")
  \/ startsWith(c, "The image contains sky which appears blue")
  \/ startsWith(c, "The image shows a natural landscape with typical earth tones")
  \/ startsWith(c, "I cannot specifically identify the colors in this image")

QueryLower == toLowerCase(query.s)

QueryHas(words) == LET q == QueryLower IN \E w \in words : strIncludes(q, w)

AnimalWords == {"animal", "pet"}

ColorWords == {"color", "colour"}

IntentWords ==
  {"animal", "pet", "object", "thing", "what is", "what's in", "show me",
   "color", "colour", "text", "say", "write", "read", "where", "location"}

\* C1: when a top-5 label or an object is a luxury keyword, every query gets
\* one of the two luxury sentences, returned by the first branch.
C1_LuxuryFirst ==
  (WellFormed /\ LuxuryEntityPresent) =>
    \A k \in 1..Len(answers) :
      /\ ~answers[k].threw
      /\ IsLuxurySentence(answers[k].completion)
      /\ answers[k].ret \in {208, 214}

\* C1 witness: a luxury entity together with an animal query has been answered
C1_Witness ==
  /\ WellFormed /\ LuxuryEntityPresent /\ QueryHas(AnimalWords)
  /\ Len(answers) > 0 /\ answers[1].ret = 214

\* the comma-separated items of a rendered list
RECURSIVE splitList(_)
splitList(s) ==
  IF Len(s) = 0 THEN <<>>
  ELSE IF \E i \in 1..(Len(s) - 1) : SubSeq(s, i, i + 1) = ", "
  THEN LET i == CHOOSE j \in 1..(Len(s) - 1) :
                  /\ SubSeq(s, j, j + 1) = ", "
                  /\ \A h \in 1..(j - 1) : SubSeq(s, h, h + 1) # ", "
       IN  <<SubSeq(s, 1, i - 1)>> \o splitList(SubSeq(s, i + 2, Len(s)))
  ELSE <<s>>

\* the completion is the watch sentence and its characteristics are at most
\* 5 label descriptions, none of them a watch label
WatchAnswer(c) ==
  /\ strIncludes(c, "timepiece")
  /\ startsWith(c, WatchPrefix)
  /\ Len(c) >= Len(WatchPrefix) + Len(WatchSuffix)
  /\ SubSeq(c, Len(c) - Len(WatchSuffix) + 1, Len(c)) = WatchSuffix
  /\ LET items == splitList(SubSeq(c, Len(WatchPrefix) + 1, Len(c) - Len(WatchSuffix)))
     IN  /\ Len(items) <= 5
         /\ \A j \in 1..Len(items) :
              /\ toLowerCase(items[j]) \notin {"watch", "analog watch"}
              /\ \E i \in 1..Len(imageAnalysis.labels) :
                   imageAnalysis.labels[i].description = items[j]

WatchLabelAt(positions) ==
  \E i \in positions : toLowerCase(imageAnalysis.labels[i].description) = "watch"

\* C2 as stated: a label "watch" at any position yields the watch sentence.
C2_WatchAnywhere ==
  (WellFormed /\ WatchLabelAt(1..Len(imageAnalysis.labels))) =>
    \A k \in 1..Len(answers) : ~answers[k].threw /\ WatchAnswer(answers[k].completion)

\* C2 amended: a label "watch" (any case) among the first five labels yields,
\* for every query, the watch sentence with at most 5 characteristics, none
\* of them "watch" or "analog watch".
C2_WatchInTop5 ==
  (WellFormed /\ WatchLabelAt(1..Min(5, Len(imageAnalysis.labels)))) =>
    \A k \in 1..Len(answers) : ~answers[k].threw /\ WatchAnswer(answers[k].completion)

\* C2 witness: a watch label in the top 5, another watch label and more than
\* five other labels, answered
C2_Witness ==
  /\ WellFormed /\ WatchLabelAt(1..Min(5, Len(imageAnalysis.labels)))
  /\ Len(imageAnalysis.labels) >= 7
  /\ \E i \in 1..Len(imageAnalysis.labels) :
       toLowerCase(imageAnalysis.labels[i].description) = "analog watch"
  /\ Len(answers) > 0

\* C3 as stated: a query with an animal and a color keyword is answered from
\* the animal branch, whatever the AnalysisResult.
C3_AnimalBeforeColorAlways ==
  (WellFormed /\ QueryHas(AnimalWords) /\ QueryHas(ColorWords)) =>
    \A k \in 1..Len(answers) :
      IsAnimalSentence(answers[k].completion) /\ ~IsColorSentence(answers[k].completion)

\* C3 amended: when the luxury rule does not fire, a query with an animal and
\* a color keyword is answered from the animal branch, never the color branch.
C3_AnimalBeforeColor ==
  (WellFormed /\ ~LuxuryRuleFires /\ QueryHas(AnimalWords) /\ QueryHas(ColorWords)) =>
    \A k \in 1..Len(answers) :
      /\ ~answers[k].threw
      /\ IsAnimalSentence(answers[k].completion)
      /\ ~IsColorSentence(answers[k].completion)
      /\ answers[k].ret \in {222, 226, 231, 235}

\* C3 witness: such a query answered for an image with a color label ("gold"
\* is a luxury keyword, so the sky object stands for the color evidence)
C3_Witness ==
  /\ WellFormed /\ ~LuxuryRuleFires /\ QueryHas(AnimalWords) /\ QueryHas(ColorWords)
  /\ \E i \in 1..Len(imageAnalysis.objects) : imageAnalysis.objects[i].name = "Sky"
  /\ Len(answers) > 0 /\ answers[1].ret = 235

NoIdentifiable ==
  "This image doesn't contain clearly identifiable objects or features that I can describe with confidence."

EmptyAnalysis ==
  /\ WellFormed
  /\ imageAnalysis.labels = <<>> /\ imageAnalysis.text = "" /\ imageAnalysis.objects = <<>>

\* C4: the empty AnalysisResult and a query without intent keyword give
\* exactly the "no identifiable objects" sentence.
C4_EmptyDefault ==
  (EmptyAnalysis /\ ~QueryHas(IntentWords)) =>
    \A k \in 1..Len(answers) :
      ~answers[k].threw /\ answers[k].completion = NoIdentifiable

\* C4 witness: the empty AnalysisResult answered for a query without keyword
C4_Witness ==
  EmptyAnalysis /\ ~QueryHas(IntentWords) /\ Len(answers) > 0

ClientEnvs == {"keyFound", "keyMissing", "initThrows"}

\* GoogleVisionClient constructor: is this.client set afterwards?
clientSet(env) == env = "keyFound"

VisionRefs ==
  {"https://example.com/sample-image.jpg",
   "https://images.unsplash.com/photo-1506744038136-46273834b3fb",
   "data:image/jpeg;base64," \o personSignature \o "EhUa",
   "data:image/png;base64,iVBORw0KGgoAAAANSUhEUg",
   "https://example.com/?src=data:image/jpeg;base64," \o personSignature,
   ""}

\* the features a caller passes: none, a list, or a JSON value that is not a list
VisionFeatures ==
  {Undefined, Arr(<<"LABEL_DETECTION">>), Arr(<<>>), Str("LABEL_DETECTION"), Num(1)}

InitVision ==
  /\ imageAnalysis = Analysis(<<>>, "", <<>>)
  /\ query = Str("")
  /\ answers = <<>>
  /\ vision = VisionIdle
  /\ demo = DemoIdle
  /\ conn = [r \in Requests |-> ConnIdle]

\* analyzeImage is called and runs until it settles or awaits annotateImage
AnalyzeImageCalled ==
  /\ vision.pc = "idle"
  /\ \E ref \in VisionRefs, f \in VisionFeatures, env \in ClientEnvs :
       LET prolog == analyzeImageProlog(Str(ref), f)
           base   == [vision EXCEPT !.imageUrl = Str(ref), !.features = f,
                                    !.clientInitialised = clientSet(env)]
       IN  vision' =
             IF ~prolog.ok
             THEN [base EXCEPT !.pc = "settled", !.settled = prolog]
             ELSE IF callsVision(clientSet(env))
             THEN [base EXCEPT !.pc = "awaiting"]
             ELSE [base EXCEPT !.pc = "settled",
                               !.settled = analyzeImageNoClient(Str(ref))]
  /\ UNCHANGED <<imageAnalysis, query, answers, conn, demo>>

\* annotateImage returns and analyzeImage runs to its end
AnnotateImageReturns ==
  /\ vision.pc = "awaiting"
  /\ \E outcome \in VisionOutcomes :
       vision' = [vision EXCEPT !.pc = "settled",
                                !.settled = analyzeImageEpilog(vision.imageUrl, outcome)]
  /\ UNCHANGED <<imageAnalysis, query, answers, conn, demo>>

\* the caller makes its next call
NextCall ==
  /\ vision.pc = "settled"
  /\ vision' = VisionIdle
  /\ UNCHANGED <<imageAnalysis, query, answers, conn, demo>>

NextVision == AnalyzeImageCalled \/ AnnotateImageReturns \/ NextCall

SpecVision == InitVision /\ [][NextVision]_vars

(***************************************************************************)
(* Properties of the adapter                                               *)
(***************************************************************************)
IsAnalysisResult(v) ==
  /\ v.t = "analysis" /\ v.missing = {}
  /\ DOMAIN v = {"t", "labels", "text", "objects", "missing"}

\* C7: every call of analyzeImage resolves to an AnalysisResult
\* {labels, text, objects}; none rejects.
C7_NeverRejects ==
  vision.pc = "settled" => vision.settled.ok /\ IsAnalysisResult(vision.settled.value)

Fixtures == {personFixture, genericFixture, landscapeFixture}

\* the call ended in the catch block: no client, or annotateImage did not
\* deliver a result
FellBack ==
  /\ vision.pc = "settled" /\ vision.settled.ok
  /\ ~vision.clientInitialised \/ vision.settled.value \in Fixtures

\* C8: the fallback is the person fixture for a data URL with the signature,
\* the generic fixture for any other data URL and the landscape fixture for
\* every other reference; it depends on the reference alone.
C8_FallbackByReference ==
  FellBack =>
    LET ref  == vision.imageUrl.s
        data == startsWith(ref, "data:image/")
        sig  == strIncludes(ref, personSignature)
    IN  /\ (data /\ sig)  => vision.settled.value = personFixture
        /\ (data /\ ~sig) => vision.settled.value = genericFixture
        /\ ~data          => vision.settled.value = landscapeFixture
        /\ Cardinality({f \in Fixtures : f = vision.settled.value}) = 1

\* C8 witness: a URL that merely contains a data URL with the signature fell
\* back to the landscape fixture
C8_Witness ==
  /\ FellBack
  /\ ~startsWith(vision.imageUrl.s, "data:image/")
  /\ strIncludes(vision.imageUrl.s, personSignature)
  /\ vision.settled.value = landscapeFixture

(***************************************************************************)
(* The two actions as mockAgent.executeAction runs them                    *)
(***************************************************************************)
\* the value an action's execute resolves to
Success(data) == [t |-> "result", success |-> TRUE, data |-> data, error |-> ""]

Failure(msg) == [t |-> "result", success |-> FALSE, data |-> Undefined, error |-> msg]

Completion(text) == [t |-> "completion", completion |-> text]

OraError(msg) ==
  [t |-> "oraError", error |-> TRUE, message |-> "Failed to query ORA API: " \o msg]

\* a step of an async function: it has returned, or it is suspended
Done(result) == [state |-> "done", result |-> result]

Suspended == [state |-> "suspended", result |-> Undefined]

\* GoogleVisionAction.execute up to the external call
visionExecuteStart(params, clientInitialised) ==
  IF params.imageUrl.t # "str"
  THEN Done(Failure("imageUrl.substring is not a function"))
  ELSE LET prolog == analyzeImageProlog(params.imageUrl, params.features)
       IN  IF ~prolog.ok THEN Done(Failure(prolog.message))
           ELSE IF callsVision(clientInitialised) THEN Suspended
           ELSE Done(Success(analyzeImageNoClient(params.imageUrl).value))

\* GoogleVisionAction.execute once annotateImage has returned
visionExecuteFinish(params, outcome) ==
  LET settled == analyzeImageEpilog(params.imageUrl, outcome)
  IN  IF settled.ok THEN Success(settled.value) ELSE Failure(settled.message)

\* OraAction.execute up to the simulated delay
oraExecuteStart(params) ==
  LET context == prepareContextString(params.imageAnalysis)
  IN  IF context.threw THEN Done(OraError(context.message)) ELSE Suspended

\* OraAction.execute after the delay
oraExecuteFinish(params) ==
  LET r == generateResponse(params.imageAnalysis, params.query)
  IN  IF r.threw THEN OraError(r.message) ELSE Completion(r.completion)

(***************************************************************************)
(* The HTTP request handler                                                *)
(***************************************************************************)
BodyObj(imageUrl, q, features, analysis) ==
  [t |-> "obj", imageUrl |-> imageUrl, query |-> q, features |-> features,
   imageAnalysis |-> analysis]

\* the request body as sent: nothing, text that is not JSON, or a JSON value
EmptyBody == [raw |-> "empty", value |-> Undefined]

InvalidBody == [raw |-> "invalid", value |-> Undefined]

\* the body stream emits 'error'
AbortedBody == [raw |-> "error", value |-> Undefined]

JsonBody(v) == [raw |-> "json", value |-> v]

\* a request: req.method, req.url and what the body stream delivers
Request(method, target, rawBody) == [method |-> method, url |-> target, rawBody |-> rawBody]

\* parseRequestBody
parseRequestBody(rawBody) ==
  IF rawBody.raw = "empty" THEN Resolve(BodyObj(Undefined, Undefined, Undefined, Undefined))
  ELSE IF rawBody.raw = "invalid" THEN Reject("Invalid JSON")
  ELSE IF rawBody.raw = "error" THEN Reject("aborted")
  ELSE Resolve(rawBody.value)

\* body.<name>: undefined on a number or a string, a TypeError on null
field(v, name) == IF v.t = "obj" THEN v[name] ELSE Undefined

canRead(v) == v.t \notin {"null", "undef"}

\* JavaScript truthiness
truthy(v) ==
  CASE v.t \in {"undef", "null"} -> FALSE
    [] v.t = "str" -> v.s # ""
    [] v.t = "num" -> v.n # 0
    [] OTHER -> TRUE

\* body.features || [...]
featuresOrDefault(features) == IF truthy(features) THEN features ELSE defaultFeatures

ErrorBody(msg) == [t |-> "error", error |-> msg]

NoContent == [t |-> "none"]

HtmlPage == [t |-> "html"]

\* res.writeHead(status) followed by res.end(body)
respond(c, status, body) ==
  [c EXCEPT !.pc = "done", !.writes = @ + 1, !.status = status, !.response = body]

\* the handler's catch block: an exception thrown inside its try
caught(c, msg) == respond([c EXCEPT !.thrown = msg], 500, ErrorBody(msg))

\* an exception thrown by the handler outside its try: the handler's promise
\* rejects and nothing is written
escapes(c, msg) == [c EXCEPT !.pc = "escaped", !.thrown = msg]

\* oraResponse.data || oraResponse
dataOrSelf(oraResponse) ==
  IF "data" \in DOMAIN oraResponse /\ truthy(oraResponse.data)
  THEN oraResponse.data ELSE oraResponse

\* the handler once query_ora has resolved
afterOra(c, oraResponse) ==
  IF c.path = "/api/query-ora"
  THEN respond(c, 200, oraResponse)
  ELSE respond(c, 200, [t |-> "combined", success |-> TRUE,
                        imageAnalysis |-> c.imageAnalysis.data,
                        oraResponse |-> dataOrSelf(oraResponse)])

\* mockAgent.executeAction('query_ora', params) up to its first suspension
startOra(c, params) ==
  LET c1 == [c EXCEPT !.executed = Append(@, "query_ora"), !.oraParams = params]
      st == oraExecuteStart(params)
  IN  IF st.state = "done" THEN afterOra(c1, st.result) ELSE [c1 EXCEPT !.pc = "delay"]

\* faulty variant: the whole action result is handed on instead of its data
oraParamsOfResult(analysisResult, body) ==
  [imageAnalysis |-> analysisResult, query |-> field(body, "query")]

\* the parameters of query_ora in /api/analyze-and-query
oraParamsOf(analysisResult, body) ==
  [imageAnalysis |-> analysisResult.data, query |-> field(body, "query")]

\* faulty variant: query_ora is started whatever analyze_image returned
afterAnalysisUnchecked(c, result) ==
  IF c.path = "/api/analyze-image"
  THEN respond(c, 200, result)
  ELSE startOra([c EXCEPT !.imageAnalysis = result], oraParamsOf(result, c.body))

\* faulty variant: the `return` after the 500 response is missing, so the
\* handler goes on to query_ora and writes again
afterAnalysisNoReturn(c, result) ==
  IF c.path = "/api/analyze-image"
  THEN respond(c, 200, result)
  ELSE LET c1 == [c EXCEPT !.imageAnalysis = result]
       IN  IF ~result.success
           THEN startOra(respond(c1, 500, ErrorBody("Failed to analyze image: "
                                                    \o result.error)),
                         oraParamsOf(result, c.body))
           ELSE startOra(c1, oraParamsOf(result, c.body))

\* the handler once analyze_image has resolved
afterAnalysis(c, result) ==
  IF c.path = "/api/analyze-image"
  THEN respond(c, 200, result)
  ELSE LET c1 == [c EXCEPT !.imageAnalysis = result]
       IN  IF ~result.success
           THEN respond(c1, 500, ErrorBody("Failed to analyze image: " \o result.error))
           ELSE startOra(c1, oraParamsOf(result, c.body))

\* mockAgent.executeAction('analyze_image', params) up to its first suspension
startAnalysis(c, clientInitialised) ==
  LET params == [imageUrl |-> field(c.body, "imageUrl"),
                 features |-> featuresOrDefault(field(c.body, "features"))]
      c1 == [c EXCEPT !.executed = Append(@, "analyze_image"),
                      !.clientInitialised = clientInitialised,
                      !.visionParams = params]
      st == visionExecuteStart(params, clientInitialised)
  IN  IF st.state = "done" THEN afterAnalysis(c1, st.result) ELSE [c1 EXCEPT !.pc = "vision"]

\* the required fields of a route
requiredFields(path) ==
  CASE path = "/api/analyze-image" -> <<"imageUrl">>
    [] path = "/api/query-ora" -> <<"imageAnalysis", "query">>
    [] path = "/api/analyze-and-query" -> <<"imageUrl", "query">>

requiredMessage(path) ==
  CASE path = "/api/analyze-image" -> "imageUrl is required"
    [] path = "/api/query-ora" -> "imageAnalysis and query are required"
    [] path = "/api/analyze-and-query" -> "imageUrl and query are required"

\* the handler once the body has been read
afterBody(c, parsed, clientInitialised) ==
  IF ~parsed.ok THEN caught(c, parsed.message)
  ELSE
  LET body == parsed.value
      c1   == [c EXCEPT !.body = body]
      need == requiredFields(c.path)
  IN  IF ~canRead(body)
      THEN caught(c1, "Cannot read properties of null (reading '" \o need[1] \o "')")
      ELSE IF \E i \in 1..Len(need) : ~truthy(field(body, need[i]))
      THEN respond(c1, 400, ErrorBody(requiredMessage(c.path)))
      ELSE IF c.path = "/api/query-ora"
      THEN startOra(c1, [imageAnalysis |-> field(body, "imageAnalysis"),
                         query |-> field(body, "query")])
      ELSE startAnalysis(c1, clientInitialised)

ApiPaths == {"/api/analyze-image", "/api/query-ora", "/api/analyze-and-query"}

\* position of the first occurrence of sub in s at or after from; 0 when none
indexOf(s, sub, from) ==
  LET hits == {i \in from..(Len(s) - Len(sub) + 1) : SubSeq(s, i, i + Len(sub) - 1) = sub}
  IN  IF hits = {} THEN 0 ELSE CHOOSE i \in hits : \A j \in hits : i <= j

\* position of the last occurrence of sub in s; 0 when none
lastIndexOf(s, sub) ==
  LET hits == {i \in 1..(Len(s) - Len(sub) + 1) : SubSeq(s, i, i + Len(sub) - 1) = sub}
  IN  IF hits = {} THEN 0 ELSE CHOOSE i \in hits : \A j \in hits : j <= i

HexDigits == {SubSeq("0123456789abcdefABCDEF", i, i) : i \in 1..22}

\* decodeURIComponent accepts s: every percent sign is followed by two hex
\* digits (its UTF-8 check is not modelled)
decodable(s) ==
  \A i \in 1..Len(s) :
    SubSeq(s, i, i) = "%" =>
      /\ i + 2 <= Len(s)
      /\ SubSeq(s, i + 1, i + 1) \in HexDigits
      /\ SubSeq(s, i + 2, i + 2) \in HexDigits

\* the part of s before its query string
beforeSearch(s) ==
  LET q == indexOf(s, "?", 1) IN IF q = 0 THEN s ELSE SubSeq(s, 1, q - 1)

\* url.parse(req.url, true).pathname: of a request target in origin form the
\* part before the query string; of one in absolute form the path after the
\* host. url.parse throws a URIError when the target has userinfo that
\* decodeURIComponent rejects.
urlParse(target) ==
  IF ~startsWith(target, "http://") THEN Resolve(beforeSearch(target))
  ELSE LET rest  == SubSeq(target, 8, Len(target))
           slash == indexOf(rest, "/", 1)
           host  == IF slash = 0 THEN rest ELSE SubSeq(rest, 1, slash - 1)
           at    == lastIndexOf(host, "@")
       IN  IF at # 0 /\ ~decodable(SubSeq(host, 1, at - 1))
           THEN Reject("URI malformed")
           ELSE IF slash = 0 THEN Resolve("/")
           ELSE Resolve(beforeSearch(SubSeq(rest, slash, Len(rest))))

\* faulty variant: the routes are chosen by the path alone
onRequestPathOnly(request) ==
  LET c0 == [ConnIdle EXCEPT !.method = request.method, !.url = request.url,
                             !.rawBody = request.rawBody]
      parsedUrl == urlParse(request.url)
      c == [c0 EXCEPT !.path = parsedUrl.value]
  IN  IF request.method = "OPTIONS" THEN respond(c0, 204, NoContent)
      ELSE IF ~parsedUrl.ok THEN escapes(c0, parsedUrl.message)
      ELSE IF c.path \in ApiPaths THEN [c EXCEPT !.pc = "body"]
      ELSE IF c.path = "/" THEN respond(c, 200, HtmlPage)
      ELSE respond(c, 404, ErrorBody("Not Found"))

\* the handler from the request event to its first suspension
onRequest(request) ==
  LET c0 == [ConnIdle EXCEPT !.method = request.method, !.url = request.url,
                             !.rawBody = request.rawBody]
      parsedUrl == urlParse(request.url)
      c == [c0 EXCEPT !.path = parsedUrl.value]
  IN  IF request.method = "OPTIONS" THEN respond(c0, 204, NoContent)
      ELSE IF ~parsedUrl.ok THEN escapes(c0, parsedUrl.message)
      ELSE IF c.path \in ApiPaths /\ request.method = "POST"
      THEN [c EXCEPT !.pc = "body"]
      ELSE IF c.path = "/" /\ request.method = "GET"
      THEN respond(c, 200, HtmlPage)
      ELSE respond(c, 404, ErrorBody("Not Found"))

\* faulty variant: the parameters are kept in one place shared by all calls,
\* so a call resumes with those of another call that is still waiting
paramsShared(conns, r) ==
  LET others == {o \in DOMAIN conns : o # r /\ conns[o].pc = "delay"}
  IN  IF others # {} THEN conns[CHOOSE o \in others : TRUE].oraParams
      ELSE conns[r].oraParams

\* `const { imageAnalysis, query } = parameters`: the locals of the execute
\* call of connection r, kept across its await
paramsOf(conns, r) == conns[r].oraParams

\* a request arrives on connection r and the handler runs to its first await
Arrive(r, requests) ==
  /\ conn[r].pc = "idle"
  /\ \E request \in requests : conn' = [conn EXCEPT ![r] = onRequest(request)]
  /\ UNCHANGED <<imageAnalysis, query, answers, vision, demo>>

\* the body of the request of connection r has been read
BodyRead(r) ==
  /\ conn[r].pc = "body"
  /\ \E env \in ClientEnvs :
       conn' = [conn EXCEPT ![r] =
                  afterBody(conn[r], parseRequestBody(conn[r].rawBody), clientSet(env))]
  /\ UNCHANGED <<imageAnalysis, query, answers, vision, demo>>

\* annotateImage returns to the analyze_image action of connection r
VisionReturns(r) ==
  /\ conn[r].pc = "vision"
  /\ \E outcome \in VisionOutcomes :
       conn' = [conn EXCEPT ![r] =
                  afterAnalysis([conn[r] EXCEPT !.outcome = outcome],
                                visionExecuteFinish(conn[r].visionParams, outcome))]
  /\ UNCHANGED <<imageAnalysis, query, answers, vision, demo>>

\* the simulated delay of the query_ora action of connection r is over
DelayElapses(r) ==
  /\ conn[r].pc = "delay"
  /\ conn' = [conn EXCEPT ![r] = afterOra(conn[r], oraExecuteFinish(paramsOf(conn, r)))]
  /\ UNCHANGED <<imageAnalysis, query, answers, vision, demo>>

InitServer ==
  /\ imageAnalysis = Analysis(<<>>, "", <<>>)
  /\ query = Str("")
  /\ answers = <<>>
  /\ vision = VisionIdle
  /\ demo = DemoIdle
  /\ conn = [r \in Requests |-> ConnIdle]

(***************************************************************************)
(* Requests                                                                *)
(***************************************************************************)
sampleUrl == "https://example.com/sample-image.jpg"

sampleDataUrl == "data:image/jpeg;base64," \o personSignature \o "EhUa"

catAnalysis == Analysis(<<Lbl("Cat", 97), Lbl("Mammal", 91)>>, "", <<Box("Cat", 93, <<5, 5, 60, 5, 60, 80, 5, 80>>)>>)

\* an imageAnalysis without labels and objects
textOnlyAnalysis ==
  [t |-> "analysis", labels |-> <<>>, text |-> "SALE", objects |-> <<>>,
   missing |-> {"labels", "objects"}]

\* what a client may send on one connection
HttpBodies ==
  {EmptyBody, InvalidBody, AbortedBody, JsonBody(Null), JsonBody(Num(5)), JsonBody(Str("hello"))}
  \cup {JsonBody(BodyObj(u, q, f, a)) :
          u \in {Undefined, Str(sampleUrl), Str(sampleDataUrl), Str(""), Num(5)},
          q \in {Undefined, Str("what animal is this"), Num(7)},
          f \in {Undefined, Arr(<<"LABEL_DETECTION">>), Str("LABEL_DETECTION")},
          a \in {Undefined, catAnalysis, textOnlyAnalysis, Str("cat")}}

HttpRequests ==
  {Request("POST", p, b) : p \in ApiPaths, b \in HttpBodies}
  \cup {Request(m, p, EmptyBody) :
          m \in {"GET", "OPTIONS", "PUT"},
          p \in ApiPaths \cup {"/", "/favicon.ico"}}
  \cup {Request("POST", p, EmptyBody) : p \in {"/", "/favicon.ico"}}
  \cup {Request(m, u, EmptyBody) :
          m \in {"GET", "OPTIONS", "POST"},
          u \in {"/?lang=en", "/api/query-ora?debug=1",
                 "http://example.com/", "http://user:pw@example.com/api/query-ora",
                 "http://%@example.com/"}}
  \cup {Request("POST", "/api/query-ora?debug=1",
                 JsonBody(BodyObj(Undefined, Str("what animal is this"), Undefined,
                                  catAnalysis)))}

\* one connection, any request
NextHttp ==
  \/ Arrive(1, HttpRequests)
  \/ BodyRead(1)
  \/ VisionReturns(1)
  \/ DelayElapses(1)

SpecHttp == InitServer /\ [][NextHttp]_vars

\* number of connections served concurrently
NumReq == 2

\* what the concurrent clients send
ConcurrentRequests ==
  {Request("POST", "/api/analyze-image",
           JsonBody(BodyObj(Str(sampleUrl), Undefined, Undefined, Undefined))),
   Request("POST", "/api/query-ora",
           JsonBody(BodyObj(Undefined, Str("what animal is this"), Undefined, catAnalysis))),
   Request("POST", "/api/query-ora",
           JsonBody(BodyObj(Undefined, Str("what colour is it"), Undefined, landscapeFixture))),
   Request("POST", "/api/analyze-and-query",
           JsonBody(BodyObj(Str(sampleUrl), Str("what animal is this"), Undefined, Undefined))),
   Request("POST", "/api/analyze-and-query",
           JsonBody(BodyObj(Str(sampleDataUrl), Str("Where is this?"), Undefined, Undefined))),
   Request("GET", "/", EmptyBody)}

Next ==
  \E r \in 1..NumReq :
    \/ Arrive(r, ConcurrentRequests)
    \/ BodyRead(r)
    \/ VisionReturns(r)
    \/ DelayElapses(r)

Spec == InitServer /\ [][Next]_vars

(***************************************************************************)
(* A client that calls /api/analyze-and-query on connection 1 and, with    *)
(* the same imageUrl, features and query, /api/analyze-image on connection *)
(* 2 followed by /api/query-ora on connection 3                            *)
(***************************************************************************)
\* JSON.stringify by the server followed by JSON.parse by the client, of an
\* AnalysisResult: the properties that are present, by name
jsonRoundTrip(analysis) ==
  [t |-> "analysis",
   labels |-> [i \in 1..Len(analysis.labels) |->
                 [description |-> analysis.labels[i].description,
                  score |-> analysis.labels[i].score]],
   text |-> analysis.text,
   objects |-> [i \in 1..Len(analysis.objects) |->
                  [name |-> analysis.objects[i].name,
                   score |-> analysis.objects[i].score,
                   boundingPoly |-> analysis.objects[i].boundingPoly]],
   missing |-> analysis.missing]

RoundTripUrls == {sampleUrl, sampleDataUrl}

RoundTripQueries == {Str("what animal is this"), Str("What COLOR is the pet?"), Num(7)}

RoundTripFeatures == {Undefined, Arr(<<"LABEL_DETECTION">>), Str("LABEL_DETECTION")}

InitRoundTrip ==
  /\ imageAnalysis = Analysis(<<>>, "", <<>>)
  /\ query = Str("")
  /\ answers = <<>>
  /\ vision = VisionIdle
  /\ demo = DemoIdle
  /\ \E u \in RoundTripUrls, q \in RoundTripQueries, f \in RoundTripFeatures :
       conn = [r \in Requests |->
                 IF r = 1
                 THEN onRequest(Request("POST", "/api/analyze-and-query",
                                        JsonBody(BodyObj(Str(u), q, f, Undefined))))
                 ELSE IF r = 2
                 THEN onRequest(Request("POST", "/api/analyze-image",
                                        JsonBody(BodyObj(Str(u), Undefined, f, Undefined))))
                 ELSE ConnIdle]

\* the client feeds the `data` of the analyze-image response into query-ora
ClientChains ==
  /\ conn[2].pc = "done" /\ conn[2].status = 200 /\ conn[2].response.success
  /\ conn[3].pc = "idle"
  /\ conn' = [conn EXCEPT ![3] =
                onRequest(Request("POST", "/api/query-ora",
                  JsonBody(BodyObj(Undefined, conn[1].rawBody.value.query, Undefined,
                                   jsonRoundTrip(conn[2].response.data)))))]
  /\ UNCHANGED <<imageAnalysis, query, answers, vision, demo>>

NextRoundTrip ==
  \/ ClientChains
  \/ \E r \in Requests : BodyRead(r) \/ VisionReturns(r) \/ DelayElapses(r)

SpecRoundTrip == InitRoundTrip /\ [][NextRoundTrip]_vars

(***************************************************************************)
(* Properties of the server                                                *)
(***************************************************************************)
\* the adapter did the same for connections 1 and 2
SameAdapter ==
  /\ conn[1].clientInitialised = conn[2].clientInitialised
  /\ conn[1].outcome = conn[2].outcome

\* C5: when the adapter returns the same AnalysisResult to both, the combined
\* route answers with the `data` of /api/analyze-image as imageAnalysis and
\* with the response of /api/query-ora (called with that data and the same
\* query) as oraResponse.
C5_RoundTrip ==
  (/\ conn[1].pc = "done" /\ conn[2].pc = "done"
   /\ conn[2].status = 200 /\ conn[2].response.success
   /\ SameAdapter) =>
    /\ conn[1].status = 200
    /\ conn[1].response.t = "combined"
    /\ conn[1].response.imageAnalysis = conn[2].response.data
    /\ conn[3].pc = "done" =>
         /\ conn[3].status = 200
         /\ conn[1].response.oraResponse = conn[3].response

\* C5 witness: the three requests are answered, the analysis came from the
\* external call and the answer is a completion
C5_Witness ==
  /\ \A r \in Requests : conn[r].pc = "done"
  /\ SameAdapter /\ conn[1].outcome.kind = "result"
  /\ conn[1].status = 200 /\ conn[3].status = 200
  /\ conn[3].response.t = "completion"

\* a required field of the route is absent from the parsed body
RequiredFieldAbsent(c) ==
  /\ c.method = "POST" /\ c.path \in ApiPaths
  /\ parseRequestBody(c.rawBody).ok
  /\ LET body == parseRequestBody(c.rawBody).value
         need == requiredFields(c.path)
     IN  \E i \in 1..Len(need) : body.t # "obj" \/ body[need[i]].t = "undef"

\* C6: a POST body that parses as JSON and lacks a required field is answered
\* with 400 and an `error` field, never 500, and no action is executed.
C6_MissingFieldIs400 ==
  \A r \in Requests :
    (conn[r].pc = "done" /\ RequiredFieldAbsent(conn[r])) =>
      /\ conn[r].status = 400
      /\ conn[r].response.t = "error"
      /\ conn[r].executed = <<>>

\* the response of a request served alone, given what the key file check and
\* the external call did for it
ServedAlone(c) ==
  LET s1 == onRequest(Request(c.method, c.url, c.rawBody))
      s2 == IF s1.pc = "body"
            THEN afterBody(s1, parseRequestBody(c.rawBody), c.clientInitialised)
            ELSE s1
      s3 == IF s2.pc = "vision"
            THEN afterAnalysis([s2 EXCEPT !.outcome = c.outcome],
                               visionExecuteFinish(s2.visionParams, c.outcome))
            ELSE s2
      s4 == IF s3.pc = "delay"
            THEN afterOra(s3, oraExecuteFinish(s3.oraParams))
            ELSE s3
  IN  [status |-> s4.status, response |-> s4.response]

\* C10: each response equals the response of the same request served alone;
\* a completion is generateResponse of the request's own AnalysisResult and
\* query.
C10_NoInterference ==
  \A r \in Requests :
    conn[r].pc = "done" =>
      /\ [status |-> conn[r].status, response |-> conn[r].response] = ServedAlone(conn[r])
      /\ (conn[r].status = 200 /\ conn[r].response.t = "completion") =>
           conn[r].response.completion =
             generateResponse(conn[r].oraParams.imageAnalysis,
                              conn[r].oraParams.query).completion

\* C10 witness: connection 1 has been answered with a completion while
\* connection 2, serving another AnalysisResult and query, waits in its delay
C10_Witness ==
  /\ conn[1].pc = "done" /\ conn[1].status = 200 /\ conn[1].response.t = "combined"
  /\ conn[1].response.oraResponse.t = "completion"
  /\ conn[2].pc = "delay" /\ conn[2].oraParams # conn[1].oraParams

\* the connection serves POST /api/analyze-and-query
IsCombined(c) == c.method = "POST" /\ c.path = "/api/analyze-and-query"

\* analyze_image has resolved for the connection, with the given success
AnalysisCompleted(c, success) ==
  c.imageAnalysis.t = "result" /\ c.imageAnalysis.success = success

\* C11: in POST /api/analyze-and-query, query_ora is started only once
\* analyze_image has completed with success true; when analyze_image completes
\* with success false the response is 500 with an error string and query_ora
\* is not executed; the 200 response is written only once both steps have
\* completed.
C11_Sequential ==
  \A r \in Requests :
    IsCombined(conn[r]) =>
      /\ "query_ora" \in {conn[r].executed[i] : i \in 1..Len(conn[r].executed)} =>
           /\ conn[r].executed = <<"analyze_image", "query_ora">>
           /\ AnalysisCompleted(conn[r], TRUE)
      /\ AnalysisCompleted(conn[r], FALSE) =>
           /\ conn[r].pc = "done" /\ conn[r].status = 500
           /\ conn[r].response.t = "error"
           /\ startsWith(conn[r].response.error, "Failed to analyze image: ")
           /\ conn[r].executed = <<"analyze_image">>
      /\ conn[r].pc \in {"vision", "delay"} => conn[r].writes = 0
      /\ (conn[r].pc = "done" /\ conn[r].status = 200) =>
           /\ conn[r].executed = <<"analyze_image", "query_ora">>
           /\ conn[r].writes = 1

\* C11 witness: analyze_image failed on a combined request, which was answered
\* with 500 without query_ora
C11_Witness ==
  \E r \in Requests :
    /\ IsCombined(conn[r]) /\ AnalysisCompleted(conn[r], FALSE)
    /\ conn[r].status = 500 /\ conn[r].executed = <<"analyze_image">>

\* C11 witness of the success path: the 200 response of a combined request
\* whose analysis came from the external call
C11_WitnessBoth ==
  \E r \in Requests :
    /\ IsCombined(conn[r]) /\ AnalysisCompleted(conn[r], TRUE)
    /\ conn[r].outcome.kind = "result"
    /\ conn[r].pc = "done" /\ conn[r].status = 200

\* the (method, path) pairs the server routes
IsRoute(c) ==
  \/ c.method = "POST" /\ c.path \in ApiPaths
  \/ c.method = "GET" /\ c.path = "/"

Received(c) == c.pc # "idle"

\* the request has a path: url.parse accepts its target
HasPath(c) == Received(c) /\ urlParse(c.url).ok

IsNotFound(c) ==
  c.pc = "done" /\ c.writes = 1 /\ c.status = 404 /\ c.response = ErrorBody("Not Found")

\* C12 as stated: every request whose (method, path) is not a route, for any
\* method, is answered with 404 {error: "Not Found"}.
C12_NotFound ==
  \A r \in Requests :
    (HasPath(conn[r]) /\ ~IsRoute(conn[r])) => IsNotFound(conn[r])

\* C12 amended: every request whose method is not OPTIONS and whose
\* (method, path) is not a route is answered with 404 {error: "Not Found"};
\* every OPTIONS request is answered with 204 and no body, whatever its
\* target.
C12_NotFoundExceptOptions ==
  \A r \in Requests :
    /\ (HasPath(conn[r]) /\ ~IsRoute(conn[r]) /\ conn[r].method # "OPTIONS") =>
         IsNotFound(conn[r])
    /\ (Received(conn[r]) /\ conn[r].method = "OPTIONS") =>
         /\ conn[r].pc = "done" /\ conn[r].writes = 1
         /\ conn[r].status = 204 /\ conn[r].response = NoContent

\* C12 witness: a PUT to the path of a route was answered with 404
C12_Witness ==
  \E r \in Requests :
    /\ conn[r].method = "PUT" /\ conn[r].path = "/api/analyze-image"
    /\ IsNotFound(conn[r])

\* C13: an exception raised in the handler while it serves a request (the
\* body is not valid JSON, the body stream fails, a property of a null body is
\* read, the request target cannot be parsed) gives the response 500
\* {error: <the exception's message>}; none leaves the request without a
\* response.
C13_ExceptionIs500 ==
  \A r \in Requests :
    conn[r].thrown # "" =>
      /\ conn[r].pc = "done" /\ conn[r].writes = 1
      /\ conn[r].status = 500
      /\ conn[r].response = ErrorBody(conn[r].thrown)

\* C13 restricted to the exceptions raised inside the handler's try block
C13_CaughtIs500 ==
  \A r \in Requests :
    (conn[r].thrown # "" /\ HasPath(conn[r])) =>
      /\ conn[r].pc = "done" /\ conn[r].writes = 1
      /\ conn[r].status = 500
      /\ conn[r].response = ErrorBody(conn[r].thrown)

\* a body that is not valid JSON was answered with 500 {error: "Invalid JSON"}
C13_InvalidJsonSeen ==
  \E r \in Requests :
    /\ conn[r].rawBody = InvalidBody /\ conn[r].thrown = "Invalid JSON"
    /\ conn[r].status = 500

\* the lines of the return statements of generateResponse
ReturnLines ==
  {208, 214, 222, 226, 231, 235, 252, 257, 262, 268, 282, 286, 290, 294, 305,
   309, 318, 324, 331, 335, 355, 360, 367, 371, 375, 379, 383, 388, 392, 400,
   406, 412}

\* C14: on a well-formed AnalysisResult (labels and objects possibly empty
\* sequences, text a string) and a query string, generateResponse throws
\* nothing and returns from exactly one of its return statements an object
\* whose completion is a string; it never runs off its end.
C14_Total ==
  (WellFormed /\ query.t = "str") =>
    \A k \in 1..Len(answers) :
      /\ ~answers[k].threw
      /\ answers[k].ret \in ReturnLines
      /\ DOMAIN answers[k] = {"threw", "ret", "completion", "message"}
      /\ answers[k].completion \in STRING
      /\ Len(answers[k].completion) > 0

\* C14 witness: the analysis with no labels, no objects and no text was asked
\* to read the text and answered from the else of the text branch
C14_Witness ==
  /\ imageAnalysis = Analysis(<<>>, "", <<>>)
  /\ QueryHas({"read"})
  /\ Len(answers) > 0 /\ answers[1].ret = 309

\* the request is a POST /api/query-ora whose body has a truthy imageAnalysis
\* without usable labels or objects and a truthy query
MalformedAnalysisSent(c) ==
  /\ c.method = "POST" /\ c.path = "/api/query-ora"
  /\ c.body.t = "obj"
  /\ truthy(c.body.imageAnalysis) /\ truthy(c.body.query)
  /\ \/ c.body.imageAnalysis.t # "analysis"
     \/ c.body.imageAnalysis.missing \cap {"labels", "objects"} # {}

IsOraError(v) ==
  /\ v.t = "oraError" /\ v.error = TRUE
  /\ startsWith(v.message, "Failed to query ORA API: ")

\* C15: POST /api/query-ora with a present imageAnalysis that lacks labels or
\* objects and a non-empty query is answered with 200 and the error object
\* {error: true, message: "Failed to query ORA API: ..."}; the exception is
\* caught in OraAction.execute and does not reach the handler's catch.
C15_ErrorObjectIs200 ==
  \A r \in Requests :
    (conn[r].pc = "done" /\ MalformedAnalysisSent(conn[r])) =>
      /\ conn[r].status = 200 /\ conn[r].writes = 1
      /\ IsOraError(conn[r].response)
      /\ conn[r].thrown = ""
      /\ conn[r].executed = <<"query_ora">>

\* C15 witness: the analysis {text: "SALE"} with a query string was answered
\* with the error object
C15_Witness ==
  \E r \in Requests :
    /\ conn[r].pc = "done" /\ MalformedAnalysisSent(conn[r])
    /\ conn[r].body.imageAnalysis = textOnlyAnalysis
    /\ conn[r].body.query.t = "str"
    /\ conn[r].response.message =
         "Failed to query ORA API: Cannot read properties of undefined (reading 'slice')"

(***************************************************************************)
(* The server with the scheduling the runtime provides: the body of a      *)
(* request that has arrived is read, and the one-second timer of the       *)
(* simulated delay fires, so no request stays in its delay for ever.       *)
(* Nothing makes the external annotateImage call return, and nothing makes *)
(* a client send a request.                                                *)
(***************************************************************************)
FairSpecHttp ==
  /\ InitServer /\ [][NextHttp]_vars
  /\ WF_vars(BodyRead(1))
  /\ []<>(conn[1].pc # "delay")

\* the request is waiting for the external annotateImage call
AwaitsVision(c) == c.pc = "vision"

Answered(c) == c.pc = "done" /\ c.writes = 1

\* C16: a request (on connection 1, the one FairSpecHttp serves) gets no
\* response while its external call has not returned;
\* a request that is not waiting for the external call (it never reached it,
\* or the call has returned or failed) eventually gets a response or comes to
\* wait for the external call.
C16_Responds ==
  /\ [](AwaitsVision(conn[1]) => conn[1].writes = 0)
  /\ (Received(conn[1]) /\ ~AwaitsVision(conn[1]))
       ~> (Answered(conn[1]) \/ AwaitsVision(conn[1]))

\* C16 for the requests whose target url.parse accepts
C16_RespondsWithPath ==
  /\ [](AwaitsVision(conn[1]) => conn[1].writes = 0)
  /\ (HasPath(conn[1]) /\ ~AwaitsVision(conn[1]))
       ~> (Answered(conn[1]) \/ AwaitsVision(conn[1]))

\* a combined request was answered after its external call returned
C16_AnsweredAfterCall ==
  \E r \in Requests :
    /\ IsCombined(conn[r]) /\ Answered(conn[r])
    /\ conn[r].outcome # NoOutcome /\ conn[r].status = 200

\* the keywords of the five query intents, in the order of the chain
IntentKeywords ==
  <<{"animal", "pet"},
    {"object", "thing", "what is", "what's in", "show me"},
    {"color", "colour"},
    {"text", "say", "write", "read"},
    {"where", "location"}>>

\* the return statements of the five intent branches and of the default one
IntentLines ==
  <<{222, 226, 231, 235}, {252, 257, 262, 268}, {282, 286, 290, 294},
    {305, 309}, {318, 324, 331, 335},
    {355, 360, 367, 371, 375, 379, 383, 388, 392, 400, 406, 412}>>

\* the intents whose keywords occur in the lower-cased query
MatchedIntents == {i \in 1..5 : QueryHas(IntentKeywords[i])}

\* the earliest of them; 6, the default, when there is none
FirstIntent ==
  LET matched == MatchedIntents
  IN  IF matched = {} THEN 6 ELSE CHOOSE i \in matched : \A j \in matched : i <= j

\* C17: when the luxury rule does not fire, the answer comes from the branch
\* of the earliest intent, in the order animal, object, color, text, location,
\* of which a keyword occurs anywhere in the lower-cased query, and from the
\* default branch when none occurs.
C17_FirstIntentWins ==
  (WellFormed /\ query.t = "str" /\ ~LuxuryRuleFires) =>
    LET first == FirstIntent
    IN  \A k \in 1..Len(answers) :
          /\ ~answers[k].threw
          /\ answers[k].ret \in IntentLines[first]
          /\ \A i \in 1..6 : i # first => answers[k].ret \notin IntentLines[i]

\* C17 witness: a query with keywords of three intents, one of them inside a
\* longer word ("pet" in "carpet"), was answered by the animal branch
C17_Witness ==
  /\ WellFormed /\ ~LuxuryRuleFires
  /\ query = Str("Show me where the carpet is")
  /\ MatchedIntents = {1, 2, 5}
  /\ Len(answers) > 0 /\ answers[1].ret \in IntentLines[1]

\* a top-5 label or an object is, lower-cased, the word w
EntityIs(w) ==
  \/ \E i \in 1..Min(5, Len(imageAnalysis.labels)) :
       toLowerCase(imageAnalysis.labels[i].description) = w
  \/ \E i \in 1..Len(imageAnalysis.objects) :
       toLowerCase(imageAnalysis.objects[i].name) = w

\* a top-5 label is, lower-cased, one of the animal categories
WildlifeLabel ==
  \E i \in 1..Min(5, Len(imageAnalysis.labels)) :
    toLowerCase(imageAnalysis.labels[i].description) \in {"animal", "mammal", "wildlife"}

CatSentence ==
  "The image shows a cat. Cats are domestic felines known for their independent nature and grooming habits. They are popular pets worldwide."

DogSentence ==
  "The image shows a dog. Dogs are domesticated mammals known for their loyalty and companionship. They are one of the most popular pets globally."

\* C18: when the luxury rule does not fire and the query contains "animal" or
\* "pet", the completion is exactly the cat sentence if a top-5 label or an
\* object is "cat"; otherwise the dog sentence if one is "dog"; otherwise the
\* wildlife template if a top-5 label is an animal category; otherwise the
\* "I don't see any animals" sentence.
C18_AnimalBranch ==
  (WellFormed /\ query.t = "str" /\ ~LuxuryRuleFires /\ QueryHas(AnimalWords)) =>
    LET cat  == EntityIs("cat")
        dog  == EntityIs("dog")
        wild == WildlifeLabel
    IN  \A k \in 1..Len(answers) :
          /\ ~answers[k].threw
          /\ cat => answers[k].completion = CatSentence
          /\ (~cat /\ dog) => answers[k].completion = DogSentence
          /\ (~cat /\ ~dog /\ wild) =>
               startsWith(answers[k].completion, "The image appears to show a ")
          /\ (~cat /\ ~dog /\ ~wild) =>
               startsWith(answers[k].completion, "I don't see any animals in this image.")

\* C18 witness: a dog label, a mammal label and a cat object together, asked
\* about the animal, gave the cat sentence
C18_Witness ==
  /\ WellFormed /\ ~LuxuryRuleFires /\ QueryHas(AnimalWords)
  /\ EntityIs("cat") /\ EntityIs("dog") /\ WildlifeLabel
  /\ toLowerCase(imageAnalysis.labels[1].description) = "dog"
  /\ Len(answers) > 0 /\ answers[1].completion = CatSentence

(***************************************************************************)
(* The CLI demo: runDemo                                                   *)
(***************************************************************************)
\* obj.success is truthy: the property exists and is true
hasSuccess(obj) == "success" \in DOMAIN obj /\ obj.success

\* `${oraResponse.error}`: "undefined" when the object has no such property,
\* "true" for the error object of OraAction.execute
errorText(obj) == IF "error" \in DOMAIN obj THEN "true" ELSE "undefined"

\* the catch block of runDemo: console.error('Error running demo:', error)
demoReports(d, msg) == [d EXCEPT !.pc = "finished", !.reported = msg]

\* runDemo once query_ora has resolved: the success test and the display step
demoAfterOra(d, oraResponse) ==
  LET d1 == [d EXCEPT !.oraResponse = oraResponse]
  IN  IF ~hasSuccess(oraResponse)
      THEN demoReports(d1, "Failed to query ORA: " \o errorText(oraResponse))
      ELSE IF "data" \notin DOMAIN oraResponse
      THEN demoReports(d1, "Cannot read properties of undefined (reading 'completion')")
      ELSE [d1 EXCEPT !.pc = "finished", !.printed = Str(oraResponse.data.completion)]

\* mockAgent.executeAction('query_ora', ...) of runDemo up to its suspension
demoStartOra(d, params) ==
  LET d1 == [d EXCEPT !.executed = Append(@, "query_ora")]
      st == oraExecuteStart(params)
  IN  IF st.state = "done" THEN demoAfterOra(d1, st.result) ELSE [d1 EXCEPT !.pc = "delay"]

demoQuery == Str("What can you tell me about this image?")

\* runDemo once analyze_image has resolved
demoAfterAnalysis(d, result) ==
  LET d1 == [d EXCEPT !.imageAnalysis = result]
  IN  IF ~result.success
      THEN demoReports(d1, "Failed to analyze image: " \o result.error)
      ELSE demoStartOra(d1, [imageAnalysis |-> result.data, query |-> demoQuery])

\* the parameters of analyze_image in runDemo: no features
demoVisionParams == [imageUrl |-> Str(sampleUrl), features |-> Undefined]

\* runDemo from its call to its first suspension
demoStart(clientInitialised) ==
  LET d1 == [DemoIdle EXCEPT !.executed = <<"analyze_image">>,
                             !.clientInitialised = clientInitialised]
      st == visionExecuteStart(demoVisionParams, clientInitialised)
  IN  IF st.state = "done" THEN demoAfterAnalysis(d1, st.result)
      ELSE [d1 EXCEPT !.pc = "vision"]

\* what annotateImage may deliver to the demo
DemoRawResults ==
  {Raw(TRUE, l, t # "", t, TRUE, o) :
     l \in {<<>>, <<Lbl("Cat", 97)>>, <<Lbl("Dog", 95)>>, <<Lbl("Watch", 92)>>,
            <<Lbl("Cat", 97), Lbl("Mammal", 91)>>, <<Lbl("Nature", 90)>>},
     t \in {"", "SALE", "SALE 50% off"},
     o \in {<<>>, <<Box("Cat", 93, <<5, 5, 60, 5, 60, 80, 5, 80>>)>>,
            <<Box("Tree", 88, <<0, 0, 40, 0, 40, 90, 0, 90>>)>>}}

DemoOutcomes == VisionOutcomes \cup {[kind |-> "result", raw |-> r] : r \in DemoRawResults}

DemoStarts ==
  /\ demo.pc = "idle"
  /\ \E env \in ClientEnvs : demo' = demoStart(clientSet(env))
  /\ UNCHANGED <<imageAnalysis, query, answers, vision, conn>>

DemoVisionReturns ==
  /\ demo.pc = "vision"
  /\ \E outcome \in DemoOutcomes :
       demo' = demoAfterAnalysis([demo EXCEPT !.outcome = outcome],
                                 visionExecuteFinish(demoVisionParams, outcome))
  /\ UNCHANGED <<imageAnalysis, query, answers, vision, conn>>

DemoDelayElapses ==
  /\ demo.pc = "delay"
  /\ demo' = demoAfterOra(demo, oraExecuteFinish([imageAnalysis |-> demo.imageAnalysis.data,
                                                  query |-> demoQuery]))
  /\ UNCHANGED <<imageAnalysis, query, answers, vision, conn>>

NextDemo == DemoStarts \/ DemoVisionReturns \/ DemoDelayElapses

SpecDemo == InitServer /\ [][NextDemo]_vars

\* the two actions of a finished run did what they are for
DemoActionsSucceeded ==
  /\ demo.imageAnalysis # Undefined /\ demo.imageAnalysis.success
  /\ demo.oraResponse # Undefined /\ demo.oraResponse.t = "completion"

\* C19: a run of runDemo in which analyze_image returned success true and
\* query_ora returned a completion prints that completion and reports no
\* error; an error is reported only when one of the two actions failed.
C19_DemoPrints ==
  demo.pc = "finished" =>
    /\ DemoActionsSucceeded =>
         /\ demo.printed = Str(demo.oraResponse.completion)
         /\ demo.reported = ""
    /\ demo.reported # "" => ~DemoActionsSucceeded

\* a finished run whose two actions succeeded
C19_BothSucceeded == demo.pc = "finished" /\ DemoActionsSucceeded

\* the 200 response of a combined request carries a completion
CarriesCompletion(c) ==
  /\ c.response.t = "combined" /\ c.response.success
  /\ c.response.imageAnalysis = c.imageAnalysis.data
  /\ IsAnalysisResult(c.response.imageAnalysis)
  /\ c.response.oraResponse.t = "completion"
  /\ c.response.oraResponse.completion \in STRING

\* C20: in every 200 response of POST /api/analyze-and-query, oraResponse is
\* a synthesized answer with a string completion, never the error object of
\* the synthesizer.
C20_NoErrorObject ==
  \A r \in Requests :
    (IsCombined(conn[r]) /\ conn[r].pc = "done" /\ conn[r].status = 200) =>
      CarriesCompletion(conn[r])

\* C20 for the requests whose query is a string
C20_NoErrorObjectForStrings ==
  \A r \in Requests :
    (/\ IsCombined(conn[r]) /\ conn[r].pc = "done" /\ conn[r].status = 200
     /\ conn[r].body.query.t = "str") =>
      CarriesCompletion(conn[r])

\* the status codes the handler writes
HandlerStatuses == {200, 204, 400, 404, 500}

\* C21: a request that gets a response gets exactly one: the status line is
\* written and the response ended at most once per request, a request is
\* done exactly when that has happened, and a request whose exception reached
\* the catch-all has the 500 of the catch-all as its only response.
C21_OneResponse ==
  \A r \in Requests :
    /\ conn[r].writes \in {0, 1}
    /\ conn[r].writes = 1 <=> conn[r].pc = "done"
    /\ conn[r].writes = 1 => conn[r].status \in HandlerStatuses
    /\ conn[r].writes = 0 => conn[r].status = 0 /\ conn[r].response = Undefined
    /\ (conn[r].thrown # "" /\ conn[r].pc = "done") =>
         /\ conn[r].writes = 1 /\ conn[r].status = 500
         /\ conn[r].response = ErrorBody(conn[r].thrown)

\* C21 witness: a combined request whose analysis failed went through its 500
\* and has one response
C21_Witness ==
  \E r \in Requests :
    /\ IsCombined(conn[r]) /\ AnalysisCompleted(conn[r], FALSE)
    /\ conn[r].pc = "done" /\ conn[r].writes = 1 /\ conn[r].thrown = ""

\* the catch-all 500 was the one response of a request
C21_CatchAllOnce ==
  \E r \in Requests :
    conn[r].pc = "done" /\ conn[r].thrown = "Invalid JSON" /\ conn[r].writes = 1

\* the return statements guarded by the luxury re-checks of the object branch
\* and of the default branch
RecheckLines == {252, 355, 360}

\* C22: no call returns from a luxury re-check: whenever an answer comes from
\* the object branch or the default branch no luxury entity was detected, and
\* the "main object in this image is a luxury item" sentence is never the
\* completion.
C22_RechecksUnreachable ==
  (WellFormed /\ query.t = "str") =>
    LET detected == LuxuryEntityPresent
    IN  \A k \in 1..Len(answers) :
          /\ answers[k].ret \notin RecheckLines
          /\ answers[k].ret \in (IntentLines[2] \cup IntentLines[6]) => ~detected
          /\ ~startsWith(answers[k].completion,
                         "The main object in this image is a luxury item")

\* C22 witness: a luxury entity was detected, the query asks for the objects,
\* objects are present, and the answer came from the first branch
C22_Witness ==
  /\ WellFormed /\ LuxuryEntityPresent
  /\ QueryHas(IntentKeywords[2]) /\ ~QueryHas(IntentKeywords[1])
  /\ Len(imageAnalysis.objects) > 0
  /\ Len(answers) > 0 /\ answers[1].ret \in {208, 214}

\* an answer came from the object branch with objects present, past the
\* re-check at line 251
C22_PastRecheck ==
  /\ WellFormed /\ ~LuxuryEntityPresent
  /\ Len(answers) > 0 /\ answers[1].ret = 257

=============================================================================
